---- MODULE Spec2Model ----
(***************************************************************************)
(* The meta handler of the random-episode addon, its in-memory cache, the  *)
(* hourly sweep and the HTTP route in front of the handler.  The           *)
(* repository holds three builds of the same server (src/server.js,        *)
(* src/unnamed/part_000, src/unnamed/part_001); `build` says which one     *)
(* runs.                                                                   *)
(***************************************************************************)
EXTENDS Integers, Sequences, FiniteSets, TLC

VARIABLES
    build,      \* which of the three server files is running
    now,        \* Date.now(), in milliseconds since the process started
    nextSweep,  \* the time the setInterval callback fires next
    cache,      \* the Map: cacheKey -> [data, timestamp]
    req,        \* per handler slot: the suspended invocation of the meta handler
    resp,       \* the response sent by the latest step, if it sent one
    lookups,    \* number of handler invocations so far
    ticks,      \* number of clock advances so far
    probe       \* input and output of a direct application of the transform

vars == <<build, now, nextSweep, cache, req, resp, lookups, ticks, probe>>

----------------------------------------------------------------------------
(* Bounds of the model *)

MaxLookups == 3
MaxTicks == 6
MaxWaits == 4

(* Program constants *)

CACHE_TTL == 1000 * 60 * 30
SWEEP_INTERVAL == 60 * 60 * 1000

Builds == {"server.js", "part_000", "part_001"}
Handlers == {"h1", "h2"}
Types == {"series", "movie"}
Ids == {"tt1", "tt2"}

----------------------------------------------------------------------------
(* JavaScript values as they come out of JSON.parse: a type tag with the   *)
(* number or the string it carries.                                        *)

Num(n) == [t |-> "number", n |-> n, s |-> ""]
Str(s) == [t |-> "string", n |-> 0, s |-> s]
Null == [t |-> "null", n |-> 0, s |-> ""]
Undefined == [t |-> "undefined", n |-> 0, s |-> ""]

Truthy(v) ==
    CASE v.t = "number" -> v.n # 0
      [] v.t = "string" -> v.s # ""
      [] OTHER -> FALSE

TypeofNumber(v) == v.t = "number"

Digits == <<"0", "1", "2", "3", "4", "5", "6", "7", "8", "9">>

RECURSIVE NatToString(_)
NatToString(n) ==
    IF n < 10 THEN Digits[n + 1]
    ELSE NatToString(n \div 10) \o Digits[(n % 10) + 1]

(* ${v} in a template literal *)
TemplateString(v) ==
    CASE v.t = "number" -> IF v.n < 0 THEN "-" \o NatToString(0 - v.n)
                           ELSE NatToString(v.n)
      [] v.t = "string" -> v.s
      [] v.t = "null" -> "null"
      [] OTHER -> "undefined"

----------------------------------------------------------------------------
(* The documents of the upstream catalog.  A video is a record of the four *)
(* fields the handler reads; isnull marks a null element of the array.     *)

Video(season, episode, title, id) ==
    [isnull |-> FALSE, season |-> season, episode |-> episode,
     title |-> title, id |-> id]

NullVideo ==
    [isnull |-> TRUE, season |-> Undefined, episode |-> Undefined,
     title |-> Undefined, id |-> Undefined]

Link(name, category, url) == [name |-> name, category |-> category, url |-> url]

(* meta: `name` stands for every field the handler does not look at;       *)
(* videosKind says what meta.videos is: missing, a string, or an array.    *)
Meta(name, videosKind, videos, hasLinks, links) ==
    [name |-> name, videosKind |-> videosKind, videos |-> videos,
     hasLinks |-> hasLinks, links |-> links]

NoMeta == Meta("", "missing", <<>>, FALSE, <<>>)

Body(hasMeta, meta) == [hasMeta |-> hasMeta, meta |-> meta]

----------------------------------------------------------------------------
(* The handler's pure steps *)

cacheKey(type, id) == type \o "/" \o id

IsSeriesAnyType(type) == TRUE

(* args.type !== 'series' is the negation of this *)
IsSeries(type) == type = "series"

IsFreshInverted(entry, t) == t - entry.timestamp > CACHE_TTL

IsFreshIgnoresAge(entry, t) == entry.timestamp <= t

(* the read-time validity test *)
IsFresh(entry, t) == t - entry.timestamp < CACHE_TTL

IsExpiredAtTtl(entry, t) == t - entry.timestamp >= CACHE_TTL

(* the sweep's removal test *)
IsExpired(entry, t) == t - entry.timestamp > CACHE_TTL

(* part_000 and part_001 hold the same handler, with the truthiness guard  *)
(* and filter; server.js holds the typeof variant                          *)
TruthyBuild(b) == b \in {"part_000", "part_001"}

(* the guard in front of the filter: TRUE when the handler goes on *)
HasVideos(b, body) ==
    IF TruthyBuild(b)
    THEN /\ body.hasMeta
         /\ \/ body.meta.videosKind = "string"
            \/ body.meta.videosKind = "array" /\ Len(body.meta.videos) # 0
    ELSE /\ body.hasMeta
         /\ body.meta.videosKind = "array"

(* the predicate given to videos.filter *)
IsEpisode(b, video) ==
    IF TruthyBuild(b)
    THEN Truthy(video.season) /\ Truthy(video.episode) /\ Truthy(video.title)
    ELSE /\ ~video.isnull
         /\ TypeofNumber(video.season)
         /\ TypeofNumber(video.episode)
         /\ Truthy(video.title)

(* videos.filter(...) raises a TypeError: a string has no filter method,   *)
(* and part_000/part_001 read video.season of a null element.              *)
FilterThrows(b, meta) ==
    /\ TruthyBuild(b)
    /\ \/ meta.videosKind = "string"
       \/ \E i \in 1..Len(meta.videos) : meta.videos[i].isnull

FilterEpisodes(b, meta) == SelectSeq(meta.videos, LAMBDA v : IsEpisode(b, v))

(* the link put in front; its name is written here without the die emoji   *)
(* that precedes it in the source                                          *)
RandomLink(id, randomEpisode) ==
    Link("Random Episode", "other",
         "stremio:///detail/series/" \o id \o "/"
            \o TemplateString(randomEpisode.season) \o "/"
            \o TemplateString(randomEpisode.id))

EnhancedLinksReplaced(id, meta, randomEpisode) == <<RandomLink(id, randomEpisode)>>

(* ...(cinemetaData.meta.links || []) *)
OldLinks(meta) == IF meta.hasLinks THEN meta.links ELSE <<>>

EnhancedLinks(id, meta, randomEpisode) ==
    <<RandomLink(id, randomEpisode)>> \o OldLinks(meta)

EnhancedMeta(id, meta, randomEpisode) ==
    [meta EXCEPT !.hasLinks = TRUE,
                 !.links = EnhancedLinks(id, meta, randomEpisode)]

(* what the handler's promise settles with *)
Resolved(isNull, meta) == [fault |-> FALSE, isNull |-> isNull, meta |-> meta]
NullResult == Resolved(TRUE, NoMeta)
Rejected == [fault |-> TRUE, isNull |-> TRUE, meta |-> NoMeta]

CatchRethrows == Rejected

(* catch (error) { ...; return { meta: null } } *)
Catch == NullResult

(* The handler from the parsed body to its return: the guard on the videos *)
(* list, the filter, the random draw, the enhanced meta.  One outcome per  *)
(* value Math.random() can give; stage names the return statement.         *)
Handle(b, id, body) ==
    LET episodes == FilterEpisodes(b, body.meta)
        Out(stage, result, eps) == [stage |-> stage, result |-> result, episodes |-> eps]
    IN  IF ~HasVideos(b, body)
        THEN {Out("videos", NullResult, <<>>)}
        ELSE IF FilterThrows(b, body.meta)
        THEN {Out("filter", Catch, <<>>)}
        ELSE IF Len(episodes) = 0
        THEN {Out("empty", NullResult, <<>>)}
        ELSE {Out("stored", Resolved(FALSE, EnhancedMeta(id, body.meta, episodes[i])),
                  episodes) : i \in 1..Len(episodes)}

(* the route of part_001: res.json(result) for the object the handler      *)
(* returns (always truthy, so never the 404 branch), 500 when the          *)
(* handler's promise rejects; server.js and part_000 leave the route to    *)
(* serveHTTP and are given the same statuses                               *)
RouteStatus(result) ==
    IF result.fault THEN 500 ELSE 200

----------------------------------------------------------------------------
(* What Cinemeta may answer *)

VA == Video(Num(1), Num(1), Str("A"), Str("tt:1:1"))
VB == Video(Num(0), Num(2), Str("B"), Str("tt:0:2"))
VC == Video(Num(2), Null, Str("C"), Str("tt:2:0"))
VD == Video(Num(3), Num(4), Str(""), Str("tt:3:4"))
VE == Video(Num(2), Num(5), Str("E"), Undefined)

L1 == Link("Trailer", "other", "https://example.org/trailer")
L2 == Link("Imdb", "imdb", "https://example.org/imdb")

P3Videos == <<VA, VB, VC, VD>>

BodyP3 == Body(TRUE, Meta("P3", "array", P3Videos, TRUE, <<L1, L2>>))
BodySpecial == Body(TRUE, Meta("Special", "array", <<VB>>, FALSE, <<>>))
BodyTwo == Body(TRUE, Meta("Two", "array", <<VE, VA>>, TRUE, <<>>))
BodyBlank == Body(TRUE, Meta("Blank", "array", <<VC, VD>>, FALSE, <<>>))
BodyEmpty == Body(TRUE, Meta("Empty", "array", <<>>, FALSE, <<>>))
BodyNullVideo == Body(TRUE, Meta("NullVideo", "array", <<NullVideo, VD>>, FALSE, <<>>))
BodyString == Body(TRUE, Meta("String", "string", <<>>, FALSE, <<>>))
BodyNoVideos == Body(TRUE, Meta("NoVideos", "missing", <<>>, FALSE, <<>>))
BodyNoMeta == Body(FALSE, NoMeta)

(* the answers the server sees in the main specification *)
Bodies == {BodyP3, BodySpecial, BodyBlank, BodyEmpty, BodyNullVideo, BodyString,
           BodyNoVideos, BodyNoMeta}

(* what Cinemeta holds under each id: tt1 may be answered with any of the   *)
(* documents, tt2 is a series of two episodes or has no videos             *)
Catalog(id) == IF id = "tt1" THEN Bodies ELSE {BodyTwo, BodyNoVideos}

FetchOutcomes == {"reject", "notok", "ok"}

----------------------------------------------------------------------------
(* State *)

(* afterFail, raced and waited are history: the lookup follows a failed one *)
(* of its key, another lookup stored its key while it was suspended, the   *)
(* clock advanced while it was suspended                                   *)
Idle ==
    [pc |-> "idle", type |-> "", id |-> "", afterFail |-> FALSE,
     raced |-> FALSE, waited |-> FALSE]

(* stage names the return statement that produced the response; waited is *)
(* kept for the response of a lookup that stored                           *)
NoResponse ==
    [type |-> "", id |-> "", result |-> NullResult, status |-> 0,
     stage |-> "none", afterFail |-> FALSE, raced |-> FALSE, waited |-> FALSE]

EntryStampedAtStart(data, timestamp) == [data |-> data, timestamp |-> 0]

(* { data: enhancedMeta, timestamp: Date.now() } *)
Entry(data, timestamp) == [data |-> data, timestamp |-> timestamp]

CacheSetDropped(map, key, entry) == map

CacheSetAlone(map, key, entry) == [k \in {key} |-> entry]

CacheSetIfAbsent(map, key, entry) ==
    IF key \in DOMAIN map THEN map
    ELSE [k \in DOMAIN map \cup {key} |-> IF k = key THEN entry ELSE map[k]]

(* cache.set(key, entry) *)
CacheSet(map, key, entry) ==
    [k \in DOMAIN map \cup {key} |-> IF k = key THEN entry ELSE map[k]]

CacheDeleteNone(map, gone) == map

(* cache.delete of every key in gone *)
CacheDelete(map, gone) == [k \in DOMAIN map \ gone |-> map[k]]

EmptyMap == [k \in {} |-> Entry(NoMeta, 0)]

(* the transform applied directly: its input and what it gave *)
NoProbe ==
    [stage |-> "none", id |-> "", body |-> BodyNoMeta, episodes |-> <<>>,
     result |-> NullResult]

InFlight(h) == req[h].pc \in {"fetch", "json"}

Init ==
    /\ build \in Builds
    /\ now = 0
    /\ nextSweep = SWEEP_INTERVAL
    /\ cache = EmptyMap
    /\ req = [h \in Handlers |-> Idle]
    /\ resp = NoResponse
    /\ lookups = 0
    /\ ticks = 0
    /\ probe = NoProbe

(* the handler returns (or throws) and the route answers *)
Respond(type, id, result, stage, afterFail, raced) ==
    [type |-> type, id |-> id, result |-> result, status |-> RouteStatus(result),
     stage |-> stage, afterFail |-> afterFail, raced |-> raced,
     waited |-> FALSE]

Return(h, result, stage) ==
    /\ resp' = Respond(req[h].type, req[h].id, result, stage,
                       req[h].afterFail, req[h].raced)
    /\ req' = [req EXCEPT ![h] = Idle]

(* history: the step before was an upstream failure for this very key *)
AfterFail(type, id) ==
    /\ resp.type = type
    /\ resp.id = id
    /\ resp.stage \in {"fetch", "status", "json", "videos", "filter"}

SameKey(g, h) == req[g].type = req[h].type /\ req[g].id = req[h].id

----------------------------------------------------------------------------
StartEvictsExpired(h, type, id) ==
    /\ req[h].pc = "idle"
    /\ lookups < MaxLookups
    /\ lookups' = lookups + 1
    /\ LET key == cacheKey(type, id)
       IN  IF ~IsSeries(type)
           THEN /\ resp' = Respond(type, id, NullResult, "type", FALSE, FALSE)
                /\ req' = req
                /\ cache' = cache
           ELSE IF key \in DOMAIN cache /\ IsFresh(cache[key], now)
           THEN /\ resp' = Respond(type, id, Resolved(FALSE, cache[key].data),
                                   "hit", AfterFail(type, id), FALSE)
                /\ req' = req
                /\ cache' = cache
           ELSE /\ req' = [req EXCEPT ![h] =
                              [pc |-> "fetch", type |-> type, id |-> id,
                               afterFail |-> AfterFail(type, id),
                               raced |-> FALSE, waited |-> FALSE]]
                /\ resp' = NoResponse
                /\ cache' = CacheDelete(cache, {key})
    /\ UNCHANGED <<build, now, nextSweep, ticks, probe>>

StartRefreshesOnHit(h, type, id) ==
    /\ req[h].pc = "idle"
    /\ lookups < MaxLookups
    /\ lookups' = lookups + 1
    /\ LET key == cacheKey(type, id)
       IN  IF ~IsSeries(type)
           THEN /\ resp' = Respond(type, id, NullResult, "type", FALSE, FALSE)
                /\ req' = req
                /\ cache' = cache
           ELSE IF key \in DOMAIN cache /\ IsFresh(cache[key], now)
           THEN /\ resp' = Respond(type, id, Resolved(FALSE, cache[key].data),
                                   "hit", AfterFail(type, id), FALSE)
                /\ req' = req
                /\ cache' = CacheSet(cache, key, Entry(cache[key].data, now))
           ELSE /\ req' = [req EXCEPT ![h] =
                              [pc |-> "fetch", type |-> type, id |-> id,
                               afterFail |-> AfterFail(type, id),
                               raced |-> FALSE, waited |-> FALSE]]
                /\ resp' = NoResponse
                /\ cache' = cache
    /\ UNCHANGED <<build, now, nextSweep, ticks, probe>>

(* The meta handler, from its call to the first await *)
Start(h, type, id) ==
    /\ req[h].pc = "idle"
    /\ lookups < MaxLookups
    /\ lookups' = lookups + 1
    /\ LET key == cacheKey(type, id)
       IN  IF ~IsSeries(type)
           THEN /\ resp' = Respond(type, id, NullResult, "type", FALSE, FALSE)
                /\ req' = req
           ELSE IF key \in DOMAIN cache /\ IsFresh(cache[key], now)
           THEN /\ resp' = Respond(type, id, Resolved(FALSE, cache[key].data),
                                   "hit", AfterFail(type, id), FALSE)
                /\ req' = req
           ELSE /\ req' = [req EXCEPT ![h] =
                              [pc |-> "fetch", type |-> type, id |-> id,
                               afterFail |-> AfterFail(type, id),
                               raced |-> FALSE, waited |-> FALSE]]
                /\ resp' = NoResponse
    /\ UNCHANGED <<build, now, nextSweep, cache, ticks, probe>>

(* await fetch(...) settles; on success the handler calls response.json() *)
FetchSettles(h, outcome) ==
    /\ req[h].pc = "fetch"
    /\ LET key == cacheKey(req[h].type, req[h].id)
       IN  CASE outcome = "reject" ->
                  /\ Return(h, Catch, "fetch")
             [] outcome = "notok" ->
                  /\ Return(h, NullResult, "status")
             [] OTHER ->
                  /\ req' = [req EXCEPT ![h].pc = "json"]
                  /\ resp' = NoResponse
    /\ UNCHANGED <<build, now, nextSweep, cache, lookups, ticks, probe>>

(* await response.json() throws: the body is not JSON *)
JsonThrows(h) ==
    /\ req[h].pc = "json"
    /\ Return(h, Catch, "json")
    /\ UNCHANGED <<build, now, nextSweep, cache, lookups, ticks, probe>>

(* await response.json() gives body: the rest of the handler *)
JsonSettles(h, body) ==
    /\ req[h].pc = "json"
    /\ \E o \in Handle(build, req[h].id, body) :
          /\ resp' = [Respond(req[h].type, req[h].id, o.result, o.stage,
                              req[h].afterFail, req[h].raced)
                         EXCEPT !.waited = o.stage = "stored" /\ req[h].waited]
          /\ IF o.stage = "stored"
             THEN /\ cache' = CacheSet(cache, cacheKey(req[h].type, req[h].id),
                                       Entry(o.result.meta, now))
                  /\ req' = [g \in Handlers |->
                               IF g = h THEN Idle
                               ELSE IF InFlight(g) /\ SameKey(g, h)
                                    THEN [req[g] EXCEPT !.raced = TRUE]
                                    ELSE req[g]]
             ELSE /\ cache' = cache
                  /\ req' = [req EXCEPT ![h] = Idle]
    /\ UNCHANGED <<build, now, nextSweep, lookups, ticks, probe>>

(* the setInterval callback *)
Sweep ==
    /\ now = nextSweep
    /\ cache' = CacheDelete(cache, {k \in DOMAIN cache : IsExpired(cache[k], now)})
    /\ nextSweep' = nextSweep + SWEEP_INTERVAL
    /\ resp' = NoResponse
    /\ UNCHANGED <<build, now, req, lookups, ticks, probe>>

(* The clock is read at the instants one millisecond around each multiple  *)
(* of the TTL: 0, 1, TTL-1, TTL, TTL+1, 2*TTL-1, 2*TTL, ...                *)
NextInstant(t) ==
    IF t % CACHE_TTL \in {CACHE_TTL - 1, 0}
    THEN t + 1
    ELSE t - (t % CACHE_TTL) + CACHE_TTL - 1

(* time passes; the sweep's timer fires when it is due *)
Tick ==
    /\ ticks < MaxTicks
    /\ now < nextSweep
    /\ now' = NextInstant(now)
    /\ ticks' = ticks + 1
    /\ req' = [h \in Handlers |->
                 IF InFlight(h) THEN [req[h] EXCEPT !.waited = TRUE] ELSE req[h]]
    /\ resp' = NoResponse
    /\ UNCHANGED <<build, nextSweep, cache, lookups, probe>>

Next ==
    \/ \E h \in Handlers, type \in Types, id \in Ids : Start(h, type, id)
    \/ \E h \in Handlers, outcome \in FetchOutcomes : FetchSettles(h, outcome)
    \/ \E h \in Handlers : JsonThrows(h)
    \/ \E h \in Handlers : \E body \in Catalog(req[h].id) : JsonSettles(h, body)
    \/ Tick
    \/ Sweep

Spec == Init /\ [][Next]_vars

----------------------------------------------------------------------------
(* The handler's transform (validate, filter, select, augment) applied     *)
(* directly to a wide range of upstream documents.                         *)

Seasons == {Num(0), Num(1), Num(12), Null, Undefined, Str("1"), Str("")}
Episodes == {Num(0), Num(1), Num(3), Null, Undefined, Str("2")}
Titles == {Str("A"), Str(""), Null, Undefined}
EpisodeIds == {Str("tt:1:1"), Undefined}

ProbeVideos ==
    {<<Video(s, e, t, i)>> : s \in Seasons, e \in Episodes, t \in Titles, i \in EpisodeIds}
        \cup {P3Videos, <<VE, VA>>, <<VB, VE, VA>>, <<NullVideo, VA>>, <<>>}

ProbeLinks == {[has |-> FALSE, links |-> <<>>], [has |-> TRUE, links |-> <<>>],
               [has |-> TRUE, links |-> <<L1>>], [has |-> TRUE, links |-> <<L1, L2>>]}

ProbeBodies ==
    {Body(TRUE, Meta("Probe", "array", v, l.has, l.links)) : v \in ProbeVideos, l \in ProbeLinks}
        \cup {BodyString, BodyNoVideos, BodyNoMeta}

InitFilter ==
    /\ build \in Builds
    /\ now = 0
    /\ nextSweep = SWEEP_INTERVAL
    /\ cache = EmptyMap
    /\ req = [h \in Handlers |-> Idle]
    /\ resp = NoResponse
    /\ lookups = 0
    /\ ticks = 0
    /\ \E id \in Ids, body \in ProbeBodies :
          probe = [NoProbe EXCEPT !.stage = "in", !.id = id, !.body = body]

Transform ==
    /\ probe.stage = "in"
    /\ \E o \in Handle(build, probe.id, probe.body) :
          probe' = [probe EXCEPT !.stage = o.stage, !.episodes = o.episodes,
                                 !.result = o.result]
    /\ UNCHANGED <<build, now, nextSweep, cache, req, resp, lookups, ticks>>

NextFilter == Transform

SpecFilter == InitFilter /\ [][NextFilter]_vars

----------------------------------------------------------------------------
(* The same program over several runs of the sweep: the clock is read at   *)
(* the multiples of the TTL only, 0, TTL, 2*TTL, ..., and the sweep's      *)
(* timer fires at every second one of them.                                *)

Wait ==
    /\ ticks < MaxWaits
    /\ now < nextSweep
    /\ now' = now - (now % CACHE_TTL) + CACHE_TTL
    /\ ticks' = ticks + 1
    /\ req' = [h \in Handlers |->
                 IF InFlight(h) THEN [req[h] EXCEPT !.waited = TRUE] ELSE req[h]]
    /\ resp' = NoResponse
    /\ UNCHANGED <<build, nextSweep, cache, lookups, probe>>

NextSweeps ==
    \/ \E h \in Handlers, type \in Types, id \in Ids : Start(h, type, id)
    \/ \E h \in Handlers, outcome \in FetchOutcomes : FetchSettles(h, outcome)
    \/ \E h \in Handlers : JsonThrows(h)
    \/ \E h \in Handlers : \E body \in Catalog(req[h].id) : JsonSettles(h, body)
    \/ Wait
    \/ Sweep

SpecSweeps == Init /\ [][NextSweeps]_vars

----------------------------------------------------------------------------
(* Properties *)

SeriesKey(id) == "series/" \o id

(* an eligible episode as the specification's glossary has it: non-zero    *)
(* season, non-zero episode, non-empty title                               *)
Eligible(video) ==
    /\ ~video.isnull
    /\ Truthy(video.season)
    /\ Truthy(video.episode)
    /\ Truthy(video.title)

(* the step sends an upstream call: some handler newly waits on fetch() *)
CallsUpstream == \E g \in Handlers : req[g].pc = "idle" /\ req'[g].pc = "fetch"

(* C1: a lookup of a key whose stored entry is younger than the TTL        *)
(* returns exactly the stored document, sends no upstream call and leaves  *)
(* the store alone.                                                        *)
C1_CacheHitFidelity ==
    [][\A h \in Handlers, id \in Ids :
         ( /\ lookups' # lookups
           /\ SeriesKey(id) \in DOMAIN cache
           /\ now - cache[SeriesKey(id)].timestamp < CACHE_TTL
           /\ Start(h, "series", id) )
         => /\ resp'.type = "series" /\ resp'.id = id
            /\ resp'.result = Resolved(FALSE, cache[SeriesKey(id)].data)
            /\ resp'.result.meta.links[1].url = cache[SeriesKey(id)].data.links[1].url
            /\ ~CallsUpstream
            /\ req' = req
            /\ cache' = cache]_vars

(* a hit answered one millisecond before the entry expires, for a document *)
(* that another draw could have augmented differently                      *)
C1_Witness ==
    /\ resp.stage = "hit"
    /\ SeriesKey(resp.id) \in DOMAIN cache
    /\ now - cache[SeriesKey(resp.id)].timestamp = CACHE_TTL - 1
    /\ resp.result.meta = cache[SeriesKey(resp.id)].data
    /\ resp.result.meta.name = "Two"

(* C2: a lookup of a key whose entry was stored at t0, made later than     *)
(* t0 + TTL, goes upstream, whether the entry is still in the store or a   *)
(* sweep has removed it.                                                   *)
C2_Expiry ==
    [][\A h \in Handlers, id \in Ids :
         ( /\ lookups' # lookups
           /\ \/ SeriesKey(id) \notin DOMAIN cache
              \/ now > cache[SeriesKey(id)].timestamp + CACHE_TTL
           /\ Start(h, "series", id) )
         => /\ req[h].pc = "idle" /\ req'[h].pc = "fetch"
            /\ req'[h].type = "series" /\ req'[h].id = id
            /\ resp' = NoResponse
            /\ cache' = cache]_vars

(* a lookup just called, waiting upstream while the expired entry of its   *)
(* key is still in the store                                               *)
C2_Witness ==
    \E h \in Handlers :
        /\ req[h].pc = "fetch"
        /\ ~req[h].waited /\ ~req[h].raced
        /\ SeriesKey(req[h].id) \in DOMAIN cache
        /\ now = cache[SeriesKey(req[h].id)].timestamp + CACHE_TTL + 1

(* the upstream call of the step fails: rejected fetch, non-success        *)
(* status, body that is not JSON, or no videos list in the body            *)
UpstreamFails(h) ==
    /\ InFlight(h)
    /\ req'[h].pc = "idle"
    /\ \/ FetchSettles(h, "reject")
       \/ FetchSettles(h, "notok")
       \/ JsonThrows(h)
       \/ \E body \in Bodies :
             /\ ~body.hasMeta \/ body.meta.videosKind # "array"
             /\ JsonSettles(h, body)

(* the upstream call gave a document with a well-formed videos list that   *)
(* holds an eligible episode                                               *)
UpstreamSucceeds(body) ==
    /\ body.hasMeta
    /\ body.meta.videosKind = "array"
    /\ \A i \in 1..Len(body.meta.videos) : ~body.meta.videos[i].isnull
    /\ \E i \in 1..Len(body.meta.videos) : Eligible(body.meta.videos[i])

(* C3: a lookup whose upstream call fails answers null and leaves the      *)
(* store as it was; the next lookup of that key, unless a fresh entry is   *)
(* in the store, goes upstream again, and when that call succeeds its      *)
(* augmented document is returned and stored.                              *)
C3_FailureNotCached ==
    [][\A h \in Handlers :
         /\ UpstreamFails(h)
              => /\ resp'.result = NullResult
                 /\ resp'.type = req[h].type /\ resp'.id = req[h].id
                 /\ cache' = cache
         /\ \A id \in Ids :
              ( /\ lookups' # lookups
                /\ AfterFail("series", id)
                /\ ~( /\ SeriesKey(id) \in DOMAIN cache
                      /\ now - cache[SeriesKey(id)].timestamp < CACHE_TTL )
                /\ Start(h, "series", id) )
              => req'[h].pc = "fetch" /\ req'[h].id = id /\ req'[h].afterFail
         /\ \A body \in Bodies :
              ( /\ req[h].pc = "json"
                /\ req[h].afterFail
                /\ req'[h].pc = "idle"
                /\ UpstreamSucceeds(body)
                /\ JsonSettles(h, body) )
              => /\ ~resp'.result.isNull
                 /\ resp'.result.meta.name = body.meta.name
                 /\ resp'.result.meta.videos = body.meta.videos
                 /\ SeriesKey(req[h].id) \in DOMAIN cache'
                 /\ cache'[SeriesKey(req[h].id)] = Entry(resp'.result.meta, now)]_vars

(* the lookup that followed a failed one of its key has stored its result *)
C3_Witness ==
    /\ resp.stage = "stored"
    /\ resp.afterFail
    /\ SeriesKey(resp.id) \in DOMAIN cache
    /\ cache[SeriesKey(resp.id)] = Entry(resp.result.meta, now)

(* C4: a fetched document without any eligible episode is answered null    *)
(* and nothing is written to the store.                                    *)
C4_NoEligibleWritesNothing ==
    [][\A h \in Handlers, body \in Bodies :
         ( /\ req[h].pc = "json"
           /\ req'[h].pc = "idle"
           /\ body.hasMeta
           /\ body.meta.videosKind = "array"
           /\ \A i \in 1..Len(body.meta.videos) : ~Eligible(body.meta.videos[i])
           /\ JsonSettles(h, body) )
         => /\ resp'.result = NullResult
            /\ cache' = cache]_vars

(* C5: a lookup of a type other than 'series' is answered null at once,    *)
(* sends no upstream call and leaves the store alone, whatever the store   *)
(* holds.                                                                  *)
C5_TypeGuard ==
    [][\A h \in Handlers, type \in Types, id \in Ids :
         ( lookups' # lookups /\ type # "series" /\ Start(h, type, id) )
         => /\ resp'.type = type /\ resp'.id = id
            /\ resp'.result = NullResult
            /\ ~CallsUpstream
            /\ req' = req
            /\ cache' = cache]_vars

(* a movie lookup answered null while a fresh entry of the same id is in   *)
(* the store                                                               *)
C5_Witness ==
    /\ resp.stage = "type"
    /\ resp.type = "movie"
    /\ resp.result = NullResult
    /\ SeriesKey(resp.id) \in DOMAIN cache
    /\ now - cache[SeriesKey(resp.id)].timestamp < CACHE_TTL

(* C6: the filter keeps a video exactly when it is eligible (truthy        *)
(* season, truthy episode, non-empty title); of the four videos of P3 it   *)
(* keeps the first alone, and that one is selected.                        *)
C6_EligibilityFilter ==
    probe.stage \in {"empty", "stored"}
    => /\ probe.episodes = SelectSeq(probe.body.meta.videos, Eligible)
       /\ probe.body.meta.videos = P3Videos
            => /\ probe.stage = "stored"
               /\ probe.episodes = <<VA>>
               /\ probe.result.meta.links[1] = RandomLink(probe.id, VA)

(* C7: a sweep removes the entries older than the TTL and no other, and a  *)
(* lookup at the instant of the sweep on a key that survived it is a hit.  *)
C7_SweepBoundary ==
    [][/\ Sweep =>
            \A k \in DOMAIN cache :
               IF now - cache[k].timestamp > CACHE_TTL
               THEN k \notin DOMAIN cache'
               ELSE k \in DOMAIN cache' /\ cache'[k] = cache[k]
       /\ \A h \in Handlers, id \in Ids :
            ( /\ lookups' # lookups
              /\ now = nextSweep - SWEEP_INTERVAL
              /\ SeriesKey(id) \in DOMAIN cache
              /\ Start(h, "series", id) )
            => /\ resp'.stage = "hit"
               /\ resp'.result = Resolved(FALSE, cache[SeriesKey(id)].data)]_vars

(* C8: the links of an augmented document are the synthetic link and then  *)
(* the links of the fetched document in their order, none when it had no   *)
(* links; its other fields are those of the fetched document.              *)
C8_LinkPrepend ==
    probe.stage = "stored"
    => LET fetched == probe.body.meta
           returned == probe.result.meta
           original == IF fetched.hasLinks THEN fetched.links ELSE <<>>
       IN  /\ ~probe.result.isNull
           /\ Len(returned.links) = 1 + Len(original)
           /\ returned.links[1].name = "Random Episode"
           /\ returned.links[1].category = "other"
           /\ \E i \in 1..Len(fetched.videos) :
                 returned.links[1] = RandomLink(probe.id, fetched.videos[i])
           /\ \A i \in 1..Len(original) : returned.links[i + 1] = original[i]
           /\ returned.name = fetched.name
           /\ returned.videosKind = fetched.videosKind
           /\ returned.videos = fetched.videos

(* a document with two links, augmented to three *)
C8_Witness ==
    /\ probe.stage = "stored"
    /\ probe.body.meta.links = <<L1, L2>>
    /\ Len(probe.result.meta.links) = 3
    /\ probe.result.meta.links[2] = L1
    /\ probe.result.meta.links[3] = L2

(* C9: whatever the type and whatever the upstream outcome, the handler    *)
(* returns {meta: document} or {meta: null}; nothing is thrown to the      *)
(* route, and the null answers of the error kinds are one and the same.    *)
C9_AlwaysWellFormed ==
    resp.stage # "none"
    => /\ ~resp.result.fault
       /\ resp.status = 200
       /\ resp.stage \in {"type", "fetch", "status", "json", "videos", "filter", "empty"}
            => resp.result = NullResult
       /\ resp.stage \in {"hit", "stored"} => ~resp.result.isNull

(* an exception thrown inside the filter, answered as null *)
C9_Witness ==
    /\ resp.stage = "filter"
    /\ resp.result = NullResult
    /\ resp.status = 200

(* C10: a lookup that starts while another lookup of its key is suspended  *)
(* and finds no fresh entry sends its own upstream call; each of the two   *)
(* stores when it succeeds, overwriting what the other stored; an entry    *)
(* changes only by such a store, and a later lookup within the TTL returns *)
(* the entry stored last.                                                  *)
C10_LastWriterWins ==
    [][/\ \A h \in Handlers, id \in Ids :
            ( /\ lookups' # lookups
              /\ \E g \in Handlers \ {h} :
                    InFlight(g) /\ req[g].type = "series" /\ req[g].id = id
              /\ ~( /\ SeriesKey(id) \in DOMAIN cache
                    /\ now - cache[SeriesKey(id)].timestamp < CACHE_TTL )
              /\ Start(h, "series", id) )
            => req'[h].pc = "fetch" /\ req'[h].id = id
       /\ \A h \in Handlers, body \in Bodies :
            ( /\ req[h].pc = "json"
              /\ req'[h].pc = "idle"
              /\ UpstreamSucceeds(body)
              /\ JsonSettles(h, body) )
            => /\ ~resp'.result.isNull
               /\ SeriesKey(req[h].id) \in DOMAIN cache'
               /\ cache'[SeriesKey(req[h].id)] = Entry(resp'.result.meta, now)
       /\ \A k \in DOMAIN cache \cap DOMAIN cache' :
            cache'[k] # cache[k]
            => /\ resp'.stage = "stored"
               /\ k = SeriesKey(resp'.id)
               /\ cache'[k] = Entry(resp'.result.meta, now)
       /\ \A h \in Handlers, id \in Ids :
            ( /\ lookups' # lookups
              /\ SeriesKey(id) \in DOMAIN cache
              /\ now - cache[SeriesKey(id)].timestamp < CACHE_TTL
              /\ Start(h, "series", id) )
            => resp'.result = Resolved(FALSE, cache[SeriesKey(id)].data)]_vars

(* the second of two racing lookups has stored over the entry of the first *)
C10_Witness ==
    /\ resp.stage = "stored"
    /\ resp.raced
    /\ SeriesKey(resp.id) \in DOMAIN cache
    /\ cache[SeriesKey(resp.id)] = Entry(resp.result.meta, now)

(* C11: a run of the sweep at time now removes the entries whose age       *)
(* now - timestamp is greater than the TTL and only those: an entry of age *)
(* at most the TTL stays, and it stays exactly as it was.                  *)
C11_SweepExact ==
    [][nextSweep' # nextSweep
         => /\ DOMAIN cache' =
                 {k \in DOMAIN cache : now - cache[k].timestamp <= CACHE_TTL}
            /\ \A k \in DOMAIN cache :
                 now - cache[k].timestamp > CACHE_TTL => k \notin DOMAIN cache'
            /\ \A k \in DOMAIN cache' : cache'[k] = cache[k]]_vars

(* the sweep has just run, and of two series looked up before it only the  *)
(* one stored exactly a TTL ago is still in the store                      *)
C11_Witness ==
    /\ nextSweep = 2 * SWEEP_INTERVAL
    /\ now = SWEEP_INTERVAL
    /\ lookups >= 2
    /\ DOMAIN cache = {SeriesKey("tt2")}
    /\ now - cache[SeriesKey("tt2")].timestamp = CACHE_TTL

(* C12: with the sweep firing on time every sweep interval, no entry in    *)
(* the store is older than TTL + sweep interval, and an entry older than   *)
(* the TTL was not yet older than the TTL when the sweep last ran: the     *)
(* first sweep after its expiry removes it.                                *)
C12_BoundedStaleness ==
    \A k \in DOMAIN cache :
        /\ now - cache[k].timestamp <= CACHE_TTL + SWEEP_INTERVAL
        /\ now - cache[k].timestamp > CACHE_TTL
             => (nextSweep - SWEEP_INTERVAL) - cache[k].timestamp <= CACHE_TTL

(* the second sweep is due: an entry stored one TTL before the first       *)
(* sweep, which kept it, is in the store at age TTL + sweep interval       *)
C12_Witness ==
    /\ now = 2 * SWEEP_INTERVAL
    /\ nextSweep = now
    /\ \E k \in DOMAIN cache :
          /\ cache[k].timestamp = SWEEP_INTERVAL - CACHE_TTL
          /\ now - cache[k].timestamp = CACHE_TTL + SWEEP_INTERVAL

(* the return statements of a lookup whose fetch or validation failed *)
FailStages == {"fetch", "status", "json", "videos", "filter", "empty"}

(* C13: a lookup never deletes an entry. Keys leave the store in a step of *)
(* the sweep only; a lookup that finds an expired entry of its key leaves  *)
(* the store alone and goes upstream; and a lookup that fails returns with *)
(* the store as it was, expired entries included.                          *)
C13_LookupNeverDeletes ==
    [][/\ nextSweep' = nextSweep => DOMAIN cache \subseteq DOMAIN cache'
       /\ \A h \in Handlers, id \in Ids :
            ( /\ lookups' # lookups
              /\ SeriesKey(id) \in DOMAIN cache
              /\ now - cache[SeriesKey(id)].timestamp >= CACHE_TTL
              /\ Start(h, "series", id) )
            => /\ cache' = cache
               /\ req'[h].pc = "fetch"
       /\ resp'.stage \in FailStages => cache' = cache]_vars

(* a lookup that found the expired entry of its key has failed, and the    *)
(* entry is still in the store; no other lookup stored it meanwhile        *)
C13_Witness ==
    /\ resp.stage \in FailStages
    /\ ~resp.raced
    /\ SeriesKey(resp.id) \in DOMAIN cache
    /\ now - cache[SeriesKey(resp.id)].timestamp > CACHE_TTL

(* C14: a stored entry is never mutated. A cache hit leaves the store as   *)
(* it was, timestamp included; the timestamp of a key changes only when a  *)
(* lookup stores a whole new entry under it; and a key leaves the store in *)
(* a step of the sweep only. So a lookup at or after timestamp + TTL is a  *)
(* miss, however often the entry was read before.                          *)
C14_EntryImmutable ==
    [][/\ resp'.stage = "hit"
            => /\ cache' = cache
               /\ cache'[SeriesKey(resp'.id)].timestamp
                    = cache[SeriesKey(resp'.id)].timestamp
               /\ now < cache[SeriesKey(resp'.id)].timestamp + CACHE_TTL
       /\ \A k \in DOMAIN cache :
            IF k \in DOMAIN cache'
            THEN \/ cache'[k] = cache[k]
                 \/ /\ resp'.stage = "stored"
                    /\ k = SeriesKey(resp'.id)
                    /\ cache'[k].data = resp'.result.meta
                    /\ cache'[k].timestamp = now
            ELSE nextSweep' # nextSweep]_vars

(* the third lookup is a hit on an entry written at instant 1 and read     *)
(* at the last instant of its validity: its timestamp is still 1           *)
C14_Witness ==
    /\ resp.stage = "hit"
    /\ lookups >= 3
    /\ now = CACHE_TTL
    /\ SeriesKey(resp.id) \in DOMAIN cache
    /\ cache[SeriesKey(resp.id)].timestamp = 1
    /\ cache[SeriesKey(resp.id)].data = resp.result.meta

(* C15, as claimed: a lookup that misses at t0 and succeeds stores its     *)
(* entry with timestamp t0. When the clock advanced while the lookup was   *)
(* suspended on its upstream call, t0 is earlier than the instant of the   *)
(* store, so the stored timestamp would be earlier than now; when it did   *)
(* not advance, t0 is now.                                                 *)
C15_StampedAtLookup ==
    [][\A h \in Handlers :
         ( /\ req[h].pc = "json"
           /\ req'[h].pc = "idle"
           /\ resp'.stage = "stored" )
         => IF req[h].waited
            THEN cache'[SeriesKey(req[h].id)].timestamp < now
            ELSE cache'[SeriesKey(req[h].id)].timestamp = now]_vars

(* C15, amended: a lookup that misses and succeeds stores its entry with   *)
(* the clock's value at the store, read after the upstream call            *)
(* completed, whether or not the clock advanced since the lookup began;    *)
(* the entry is valid from that instant.                                   *)
C15_StampedAtStore ==
    [][\A h \in Handlers :
         ( /\ req[h].pc = "json"
           /\ req'[h].pc = "idle"
           /\ resp'.stage = "stored" )
         => /\ resp'.waited = req[h].waited
            /\ cache'[SeriesKey(req[h].id)].timestamp = now
            /\ now - cache'[SeriesKey(req[h].id)].timestamp < CACHE_TTL]_vars

(* a lookup begun before the first TTL ran out has stored after it: the    *)
(* entry carries the instant of the store                                  *)
C15_Witness ==
    /\ resp.stage = "stored"
    /\ resp.waited
    /\ now = CACHE_TTL + 1
    /\ cache[SeriesKey(resp.id)].timestamp = now

(* C16: every entry in the store holds a document whose first link is the  *)
(* synthetic link of its key's id and of one eligible record of the        *)
(* fetched videos list, never of an ineligible one; and while a lookup     *)
(* awaits its document, each eligible record of each document it may       *)
(* receive is one the handler can select.                                  *)
C16_SelectionFromEligible ==
    /\ \A id \in Ids :
         SeriesKey(id) \in DOMAIN cache
         => LET data == cache[SeriesKey(id)].data
            IN  \E i \in 1..Len(data.videos) :
                   /\ Eligible(data.videos[i])
                   /\ data.links[1] = RandomLink(id, data.videos[i])
    /\ \A h \in Handlers :
         req[h].pc = "json"
         => \A body \in Catalog(req[h].id) :
               UpstreamSucceeds(body)
               => \A i \in 1..Len(body.meta.videos) :
                     Eligible(body.meta.videos[i])
                     => \E o \in Handle(build, req[h].id, body) :
                           /\ o.stage = "stored"
                           /\ o.result.meta.links[1]
                                = RandomLink(req[h].id, body.meta.videos[i])

(* C17: a lookup writes at most the entry of its own key. In a step that   *)
(* is not the sweep's, a key whose entry was added, replaced or removed is *)
(* the key of the lookup that returned in that step, and the entries of    *)
(* all other keys are as they were.                                        *)
C17_OtherKeysUntouched ==
    [][nextSweep' = nextSweep
         => \A k \in DOMAIN cache \cup DOMAIN cache' :
               ( \/ k \notin DOMAIN cache
                 \/ k \notin DOMAIN cache'
                 \/ cache'[k] # cache[k] )
               => \E h \in Handlers :
                     /\ req[h].pc = "json"
                     /\ req'[h].pc = "idle"
                     /\ k = cacheKey(req[h].type, req[h].id)
                     /\ \A j \in DOMAIN cache \ {k} :
                           j \in DOMAIN cache' /\ cache'[j] = cache[j]]_vars

(* a lookup has stored its key while the entry of the other key, stored    *)
(* earlier, is in the store and a lookup of that other key is suspended    *)
C17_Witness ==
    /\ resp.stage = "stored"
    /\ \E id \in Ids \ {resp.id} :
          /\ SeriesKey(id) \in DOMAIN cache
          /\ cache[SeriesKey(id)].timestamp < cache[SeriesKey(resp.id)].timestamp
          /\ \E g \in Handlers : InFlight(g) /\ req[g].id = id

====
